---- MODULE Spec2Model ----
(***************************************************************************)
(* Net-worth tracker: the ledger import (parseCsvLong, onCsvUpload), the   *)
(* REST handlers over the accounts/balances tables, and the chart rollup.  *)
(*                                                                         *)
(* Strings are sequences of one-character strings, so that split, trim,    *)
(* lower-casing, Number() and padStart are computed as the code computes   *)
(* them.  An absent value (undefined / null) and the empty string are both *)
(* the empty sequence: every use in the modelled code tests them with      *)
(* `!x` or `x || ""`, which does not tell them apart.                      *)
(***************************************************************************)
EXTENDS Integers, Sequences, FiniteSets, TLC

VARIABLES
    accounts,        \* table accounts: set of [id, user, name, category]
    balances,        \* table balances: set of [id, user, account_id, date, balance]
    nextAccountId,   \* AUTOINCREMENT of accounts.id
    nextBalanceId,   \* AUTOINCREMENT of balances.id
    net,             \* requests in flight between a client and the server
    pc,              \* position of onCsvUpload
    file,            \* text of the uploaded file
    records,         \* parseCsvLong(text)
    acctMap,         \* Map: lower-cased name -> account object
    createTasks,     \* closures queued for addAccount
    updateTasks,     \* closures queued for updateAccount
    deleteTasks,     \* closures queued for deleteBalance
    cleanedRecords,  \* records that passed the clean + validate step
    done,            \* number of tasks of the current phase in settled batches
    tstat,           \* state of each task of the batch in flight
    imported,        \* counter `imported`
    failed,          \* counter `failed`
    status,          \* last value given to setStatus
    run,             \* number of uploads started so far
    hist             \* observations of the runs (not program state)

vars == << accounts, balances, nextAccountId, nextBalanceId, net, pc, file,
           records, acctMap, createTasks, updateTasks, deleteTasks,
           cleanedRecords, done, tstat, imported, failed, status, run, hist >>

storeVars == << accounts, balances, nextAccountId, nextBalanceId >>

(***************************************************************************)
(* Bounds of the model.                                                    *)
(***************************************************************************)
MaxLines == 2          \* lines of an enumerated text
MaxRuns == 2           \* uploads in one behaviour
MaxFaults == 1         \* network or store faults injected in one behaviour
MaxOps == 2            \* requests of other clients in one behaviour
AccountBatch == 1      \* stands for the batch size 10 of creates and updates
DeleteBatch == 2       \* stands for the batch size 100 of deletes
InsertBatch == 2       \* stands for the batch size 100 of upserts
MaxParts == 3          \* parts of an enumerated date string

(***************************************************************************)
(* Characters and strings                                                  *)
(***************************************************************************)
UpperChars == << "A","B","C","D","E","F","G","H","I","J","K","L","M",
                 "N","O","P","Q","R","S","T","U","V","W","X","Y","Z" >>
LowerChars == << "a","b","c","d","e","f","g","h","i","j","k","l","m",
                 "n","o","p","q","r","s","t","u","v","w","x","y","z" >>
DigitChars == << "0","1","2","3","4","5","6","7","8","9" >>
Whitespace == { " ", "\t", "\r", "\n" }

IndexIn(seq, c) == IF \E i \in DOMAIN seq : seq[i] = c
                   THEN CHOOSE i \in DOMAIN seq : seq[i] = c
                   ELSE 0

\* String.prototype.toLowerCase
toLowerCase(s) ==
    [ i \in DOMAIN s |->
        IF IndexIn(UpperChars, s[i]) > 0 THEN LowerChars[IndexIn(UpperChars, s[i])]
        ELSE s[i] ]

RECURSIVE TrimLeft(_)
TrimLeft(s) == IF s # << >> /\ Head(s) \in Whitespace THEN TrimLeft(Tail(s)) ELSE s

RECURSIVE TrimRight(_)
TrimRight(s) == IF s # << >> /\ s[Len(s)] \in Whitespace
                THEN TrimRight(SubSeq(s, 1, Len(s) - 1)) ELSE s

\* String.prototype.trim
trim(s) == TrimRight(TrimLeft(s))

\* String.prototype.includes, for a one-character needle
includes(s, c) == \E i \in DOMAIN s : s[i] = c

\* String.prototype.startsWith
startsWith(s, p) == Len(s) >= Len(p) /\ SubSeq(s, 1, Len(p)) = p

\* String.prototype.split on a one-character separator
RECURSIVE split(_, _)
split(s, sep) ==
    IF ~includes(s, sep) THEN << s >>
    ELSE LET i == CHOOSE k \in DOMAIN s :
                      s[k] = sep /\ \A j \in 1..(k - 1) : s[j] # sep
         IN << SubSeq(s, 1, i - 1) >> \o split(SubSeq(s, i + 1, Len(s)), sep)

\* s.replace(/[$,]/g, "")
RECURSIVE stripMoney(_)
stripMoney(s) ==
    IF s = << >> THEN << >>
    ELSE IF Head(s) \in { "$", "," } THEN stripMoney(Tail(s))
    ELSE << Head(s) >> \o stripMoney(Tail(s))

RECURSIVE DigitsValue(_)
DigitsValue(s) == IF s = << >> THEN 0
                  ELSE 10 * DigitsValue(SubSeq(s, 1, Len(s) - 1))
                       + (IndexIn(DigitChars, s[Len(s)]) - 1)

AllDigits(s) == s # << >> /\ \A i \in DOMAIN s : IndexIn(DigitChars, s[i]) > 0

\* Number(s) for the decimal integers: [nan |-> TRUE] stands for NaN.  Texts
\* of the model hold no ".", "e", "x" or "Infinity".
Number(s) ==
    LET t == trim(s) IN
    IF t = << >> THEN [nan |-> FALSE, v |-> 0]
    ELSE IF AllDigits(t) THEN [nan |-> FALSE, v |-> DigitsValue(t)]
    ELSE IF Head(t) = "-" /\ AllDigits(Tail(t))
         THEN [nan |-> FALSE, v |-> 0 - DigitsValue(Tail(t))]
    ELSE IF Head(t) = "+" /\ AllDigits(Tail(t))
         THEN [nan |-> FALSE, v |-> DigitsValue(Tail(t))]
    ELSE [nan |-> TRUE, v |-> 0]

\* String(n) for an integer n
RECURSIVE NatToString(_)
NatToString(n) == IF n < 10 THEN << DigitChars[n + 1] >>
                  ELSE NatToString(n \div 10) \o << DigitChars[(n % 10) + 1] >>

String(n) == IF n < 0 THEN << "-" >> \o NatToString(0 - n) ELSE NatToString(n)

\* s.padStart(2, "0")
padStart2(s) == IF Len(s) >= 2 THEN s
                ELSE IF Len(s) = 1 THEN << "0" >> \o s
                ELSE << "0", "0" >>

\* a[i] of a JS array: undefined (the empty sequence here) past the end
At(a, i) == IF i \in DOMAIN a THEN a[i] ELSE << >>

(***************************************************************************)
(* Date helpers                                                            *)
(***************************************************************************)
\* parseDateParts: [ok |-> FALSE] stands for null
parseDateParts(str) ==
    LET s == trim(str)
        parts == IF includes(s, "/") THEN split(s, "/") ELSE split(s, "-")
        a == Number(At(parts, 1))
        b == Number(At(parts, 2))
        c == Number(At(parts, 3))
        y0 == IF includes(s, "/") THEN c.v ELSE a.v
        m == IF includes(s, "/") THEN a.v ELSE b.v
        d == IF includes(s, "/") THEN b.v ELSE c.v
        y == IF y0 < 100 THEN 2000 + y0 ELSE y0
        null == [ok |-> FALSE, y |-> 0, m |-> 0, d |-> 0]
    IN IF str = << >> THEN null
       ELSE IF Len(parts) < 3 THEN null
       ELSE IF a.nan \/ b.nan \/ c.nan THEN null
       ELSE IF y = 0 \/ m = 0 \/ d = 0 THEN null
       ELSE [ok |-> TRUE, y |-> y, m |-> m, d |-> d]

\* mutant of toIsoDate: month and day change places in the output
toIsoDateDayFirst(str) ==
    LET p == parseDateParts(str) IN
    IF ~p.ok THEN trim(str)
    ELSE String(p.y) \o << "-" >> \o padStart2(String(p.d))
         \o << "-" >> \o padStart2(String(p.m))

toIsoDate(str) ==
    LET p == parseDateParts(str) IN
    IF ~p.ok THEN trim(str)
    ELSE String(p.y) \o << "-" >> \o padStart2(String(p.m))
         \o << "-" >> \o padStart2(String(p.d))

\* String(p.y).slice(-2)
sliceLast2(s) == IF Len(s) <= 2 THEN s ELSE SubSeq(s, Len(s) - 1, Len(s))

formatDate(str) ==
    LET p == parseDateParts(str) IN
    IF ~p.ok THEN str
    ELSE String(p.m) \o << "/" >> \o String(p.d) \o << "/" >> \o sliceLast2(String(p.y))

\* days from 1970-01-01 to the first day of month m (1..12) of year y
daysToMonth(y, m) ==
    LET yy == IF m <= 2 THEN y - 1 ELSE y
        era == yy \div 400
        yoe == yy - era * 400
        mp == IF m > 2 THEN m - 3 ELSE m + 9
        doy == (153 * mp + 2) \div 5
        doe == yoe * 365 + (yoe \div 4) - (yoe \div 100) + doy
    IN era * 146097 + doe - 719468

\* Date.UTC(year, monthIndex, day): months and days out of range carry over.
\* The timestamp is counted in days, of 86,400,000 ms each.
DateUTC(year, monthIndex, day) ==
    daysToMonth(year + (monthIndex \div 12), (monthIndex % 12) + 1) + (day - 1)

dateMs(str) ==
    LET p == parseDateParts(str) IN
    IF ~p.ok THEN 0 ELSE DateUTC(p.y, p.m - 1, p.d)

(***************************************************************************)
(* Categories and types                                                    *)
(***************************************************************************)
S_date == << "d","a","t","e" >>
S_account == << "a","c","c","o","u","n","t" >>
S_category == << "c","a","t","e","g","o","r","y" >>
S_type == << "t","y","p","e" >>
S_balance == << "b","a","l","a","n","c","e" >>
S_liab == << "l","i","a","b" >>
S_asset == << "a","s","s","e","t" >>
S_other == << "o","t","h","e","r" >>
S_cash == << "c","a","s","h" >>
S_stocks == << "s","t","o","c","k","s" >>
S_crypto == << "c","r","y","p","t","o" >>
S_retirement == << "r","e","t","i","r","e","m","e","n","t" >>
S_property == << "p","r","o","p","e","r","t","y" >>
S_mortgage == << "m","o","r","t","g","a","g","e" >>
S_creditCard == << "c","r","e","d","i","t"," ","c","a","r","d" >>
S_loans == << "l","o","a","n","s" >>
S_otherLiability == S_other \o << " ","l","i","a","b","i","l","i","t","y" >>

assetCategories == << S_cash, S_stocks, S_crypto, S_retirement, S_property, S_other >>
liabilityCategories == << S_mortgage, S_creditCard, S_loans, S_otherLiability >>

categoryType(cat) ==
    IF \E i \in DOMAIN liabilityCategories : liabilityCategories[i] = toLowerCase(cat)
    THEN "liability" ELSE "asset"

sanitizeCategory(cat) ==
    LET c == toLowerCase(trim(cat)) IN IF c = << >> THEN S_other ELSE c

\* "null" stands for null
normalizeType(val) ==
    LET t == toLowerCase(trim(val)) IN
    IF startsWith(t, S_liab) THEN "liability"
    ELSE IF startsWith(t, S_asset) THEN "asset"
    ELSE "null"

(***************************************************************************)
(* CSV parser                                                              *)
(***************************************************************************)
MapTrim(seq) == [ i \in DOMAIN seq |-> trim(seq[i]) ]

\* String(text).split(/\r?\n/).map(l => l.trim()).filter(Boolean); the "\r"
\* of a "\r\n" ending is removed by trim
csvLines(text) == SelectSeq(MapTrim(split(text, "\n")), LAMBDA l : l # << >>)

hasHeader5(header) ==
    /\ At(header, 1) = S_date /\ At(header, 2) = S_account
    /\ At(header, 3) = S_category /\ At(header, 4) = S_type
    /\ At(header, 5) = S_balance

hasHeader4(header) ==
    /\ At(header, 1) = S_date /\ At(header, 2) = S_account
    /\ At(header, 3) = S_type /\ At(header, 4) = S_balance

hasHeader3(header) ==
    /\ At(header, 1) = S_date /\ At(header, 2) = S_account
    /\ At(header, 3) = S_balance

\* The columns of one line as [dateStr, account, categoryRaw, typeRaw, balStr]
rowFields(cols, header) ==
    IF hasHeader5(header) \/ Len(cols) >= 5
    THEN [dateStr |-> At(cols, 1), account |-> At(cols, 2),
          categoryRaw |-> At(cols, 3), typeRaw |-> At(cols, 4), balStr |-> At(cols, 5)]
    ELSE IF hasHeader4(header) \/ Len(cols) = 4
    THEN [dateStr |-> At(cols, 1), account |-> At(cols, 2),
          categoryRaw |-> << >>, typeRaw |-> At(cols, 3), balStr |-> At(cols, 4)]
    ELSE [dateStr |-> At(cols, 1), account |-> At(cols, 2),
          categoryRaw |-> << >>, typeRaw |-> << >>, balStr |-> At(cols, 3)]

\* The loop body of parseCsvLong: the records one line contributes (0 or 1)
parseRow(line, header) ==
    LET cols == MapTrim(split(line, ","))
        f == rowFields(cols, header)
        balance == Number(stripMoney(f.balStr))
    IN IF Len(cols) < 3 THEN << >>
       ELSE IF f.dateStr = << >> \/ f.account = << >> \/ f.balStr = << >> THEN << >>
       ELSE IF balance.nan THEN << >>
       ELSE << [date |-> toIsoDate(f.dateStr), account |-> f.account,
                balance |-> balance.v, type |-> normalizeType(f.typeRaw),
                category |-> sanitizeCategory(f.categoryRaw)] >>

RECURSIVE parseRows(_, _, _)
parseRows(lines, i, header) ==
    IF i > Len(lines) THEN << >>
    ELSE parseRow(lines[i], header) \o parseRows(lines, i + 1, header)

\* The early return of parseCsvLong on a text with fewer than two lines
tooFewLines(lines) == Len(lines) < 2

parseCsvLong(text) ==
    LET lines == csvLines(text)
        header == IF lines = << >> THEN << >>
                  ELSE LET h == split(lines[1], ",")
                       IN [ i \in DOMAIN h |-> toLowerCase(trim(h[i])) ]
        startIdx == IF hasHeader5(header) \/ hasHeader4(header) \/ hasHeader3(header)
                    THEN 2 ELSE 1
    IN IF tooFewLines(lines) THEN << >>
       ELSE parseRows(lines, startIdx, header)

(***************************************************************************)
(* The store: the statements the handlers run on the two tables            *)
(***************************************************************************)
Me == 1                \* the user of the browser session that imports
Users == { 1, 2 }

CharOrder == << " ", "$", "+", ",", "-", "/" >> \o DigitChars \o UpperChars \o LowerChars

\* a < b in the BINARY collation of ORDER BY name
LessStr(a, b) ==
    \E k \in 1..(Len(a) + 1) :
        /\ \A j \in 1..(k - 1) : j <= Len(b) /\ a[j] = b[j]
        /\ \/ k = Len(a) + 1 /\ Len(b) >= k
           \/ k <= Len(a) /\ k <= Len(b)
              /\ IndexIn(CharOrder, a[k]) < IndexIn(CharOrder, b[k])

\* UNIQUE(user_id, name)
nameTaken(u, name) == \E a \in accounts : a.user = u /\ a.name = name

\* SELECT ... FROM accounts WHERE user_id=?
accountsOf(u) == { a \in accounts : a.user = u }

\* SELECT b.id, b.date, b.balance, a.name AS account FROM balances b
\* JOIN accounts a ON a.id = b.account_id WHERE b.user_id=?
balanceRows(u) ==
    { [id |-> b.id, date |-> b.date, balance |-> b.balance, account |-> a.name] :
        << b, a >> \in { p \in balances \X accounts :
                           p[1].user = u /\ p[2].id = p[1].account_id } }

\* mutant of upsertRow: a plain INSERT on a table without UNIQUE(account_id, date)
upsertRowPlainInsert(u, acct, date, balance) ==
    balances \cup { [id |-> nextBalanceId, user |-> u, account_id |-> acct,
                     date |-> date, balance |-> balance] }

\* INSERT INTO balances ... ON CONFLICT(account_id, date) DO UPDATE SET
\* balance=excluded.balance
\* FOREIGN KEY(account_id) is not enforced: db.js switches the foreign_keys
\* pragma on only when it rebuilds a legacy accounts table
upsertRow(u, acct, date, balance) ==
    IF \E b \in balances : b.account_id = acct /\ b.date = date
    THEN { IF b.account_id = acct /\ b.date = date
           THEN [b EXCEPT !.balance = balance] ELSE b : b \in balances }
    ELSE balances \cup { [id |-> nextBalanceId, user |-> u, account_id |-> acct,
                          date |-> date, balance |-> balance] }

upsertInserts(acct, date) == ~\E b \in balances : b.account_id = acct /\ b.date = date

(***************************************************************************)
(* Requests in flight.  run > 0: issued by upload number `run` as task     *)
(* `idx` of its phase; run = 0: issued by another client.                  *)
(***************************************************************************)
Request(kind, u, r, idx, id, name, category, date, balance) ==
    [kind |-> kind, user |-> u, run |-> r, idx |-> idx, step |-> 1, acct |-> 0,
     id |-> id, name |-> name, category |-> category, date |-> date,
     balance |-> balance]

PhaseOf(kind) ==
    CASE kind = "postAccount" -> "creating"
      [] kind = "patchAccount" -> "updating"
      [] kind = "deleteBalance" -> "deleting"
      [] kind = "postBalance" -> "inserting"
      [] OTHER -> "none"

\* the promise of request r is still awaited by the running upload
Awaited(r) ==
    /\ r.run = run /\ r.run > 0 /\ pc = PhaseOf(r.kind)
    /\ r.idx \in DOMAIN tstat /\ tstat[r.idx] = "inflight"

\* mutant of settle: a fetch that fails leaves its promise pending
settlePendingOnReject(r, outcome) ==
    IF Awaited(r) /\ outcome # "rejected" THEN [tstat EXCEPT ![r.idx] = outcome] ELSE tstat

settle(r, outcome) == IF Awaited(r) THEN [tstat EXCEPT ![r.idx] = outcome] ELSE tstat

CanFault == hist.faults < MaxFaults

fault(h) == [h EXCEPT !.faults = @ + 1, !.clean = FALSE]

\* the outcome of upsert task r, noted for the running upload
noteUpsert(h, r, what) ==
    IF r.run = run /\ r.run > 0 /\ r.kind = "postBalance" /\ r.idx \in DOMAIN h.outcome
    THEN [h EXCEPT !.outcome[r.idx] = what] ELSE h

\* the failure of account task r, noted for the running upload: "rejected"
\* when the fetch rejects, "error" when the server answers with an error
noteAccount(h, r, how) ==
    IF r.run = run /\ r.run > 0 /\ r.kind \in { "postAccount", "patchAccount" }
    THEN [h EXCEPT !.acctFailed = @ \cup { [kind |-> r.kind, name |-> r.name,
                                           how |-> how] }]
    ELSE h

(***************************************************************************)
(* onCsvUpload: the reconciliation plan                                    *)
(***************************************************************************)
Status(msg, rows, total) ==
    [msg |-> msg, rows |-> rows, total |-> total, failedPart |-> << >>]

\* `Imported ${imported} rows.${failed ? ` ${failed} failed (see Console).` : ""}`
\* failedPart is the list of numbers printed after "rows."
finalStatus(imp, fl) ==
    [msg |-> "Imported", rows |-> imp, total |-> 0,
     failedPart |-> IF fl # 0 THEN << fl >> ELSE << >>]

\* new Map(acctList.map(a => [String(a.name).trim().toLowerCase(), a])), for
\* acctList in ORDER BY name: the last account of a key stays
acctMapOf(acctList) ==
    LET key(a) == toLowerCase(trim(a.name))
        keys == { key(a) : a \in acctList }
        last(k) == CHOOSE a \in acctList :
                       /\ key(a) = k
                       /\ \A b \in acctList : key(b) = k /\ b # a => LessStr(b.name, a.name)
    IN [ k \in keys |-> [id |-> last(k).id, name |-> last(k).name,
                         category |-> last(k).category] ]

defaultCategoryForType(t) == IF t = "liability" THEN S_otherLiability ELSE S_other

\* the { name, category } that one record sets in desiredMeta
metaOf(rec, map) ==
    LET name == trim(rec.account)
        key == toLowerCase(name)
        categoryFromCsv == sanitizeCategory(rec.category)
        existingCategory == sanitizeCategory(IF key \in DOMAIN map
                                             THEN map[key].category ELSE << >>)
        typeFromCsv == normalizeType(rec.type)
        typeFromCategory == categoryType(IF categoryFromCsv # << >>
                                         THEN categoryFromCsv ELSE existingCategory)
        type == IF typeFromCsv # "null" THEN typeFromCsv ELSE typeFromCategory
        category == IF categoryFromCsv # << >> THEN categoryFromCsv
                    ELSE IF existingCategory # << >> THEN existingCategory
                    ELSE defaultCategoryForType(type)
    IN [key |-> key, name |-> name, category |-> category]

\* desiredMeta: a Map keeps the place of a key's first set and its last value
RECURSIVE desiredMetaOf(_, _, _, _)
desiredMetaOf(recs, i, map, acc) ==
    IF i > Len(recs) THEN acc
    ELSE LET m == metaOf(recs[i], map) IN
         IF m.name = << >> THEN desiredMetaOf(recs, i + 1, map, acc)
         ELSE IF \E j \in DOMAIN acc : acc[j].key = m.key
         THEN desiredMetaOf(recs, i + 1, map,
                  [ j \in DOMAIN acc |-> IF acc[j].key = m.key THEN m ELSE acc[j] ])
         ELSE desiredMetaOf(recs, i + 1, map, Append(acc, m))

createTasksOf(metas, map) == SelectSeq(metas, LAMBDA m : m.key \notin DOMAIN map)

needsUpdate(m, map) ==
    /\ m.key \in DOMAIN map
    /\ sanitizeCategory(map[m.key].category) # sanitizeCategory(m.category)

\* mutant of updateName: the update sends the name as the file spells it
updateNameFromFile(existing, meta) == meta.name

\* the name sent by updateAccount(existing.id, { name: existing.name, ... })
updateName(existing, meta) == existing.name

updateTasksOf(metas, map) ==
    LET sel == SelectSeq(metas, LAMBDA m : needsUpdate(m, map))
    IN [ j \in DOMAIN sel |->
           [key |-> sel[j].key, id |-> map[sel[j].key].id,
            name |-> updateName(map[sel[j].key], sel[j]),
            category |-> sel[j].category] ]

\* the clean + validate step: one cleaned record, or none, per record
cleanOne(rec) ==
    LET accountName == trim(rec.account)
        date == toIsoDate(rec.date)
    IN IF accountName = << >> THEN << >>
       ELSE IF date = << >> THEN << >>
       ELSE << [date |-> date, account |-> accountName, balance |-> rec.balance] >>

RECURSIVE cleanAll(_, _)
cleanAll(recs, i) ==
    IF i > Len(recs) THEN << >> ELSE cleanOne(recs[i]) \o cleanAll(recs, i + 1)

\* ids of getBalances() in ORDER BY b.date, a.name: ids ascending stands for
\* that order, which no task depends on
RECURSIVE idsInOrder(_)
idsInOrder(ids) ==
    IF ids = {} THEN << >>
    ELSE LET m == CHOOSE x \in ids : \A y \in ids : x <= y
         IN << m >> \o idsInOrder(ids \ { m })

(***************************************************************************)
(* onCsvUpload: the steps                                                  *)
(***************************************************************************)
BatchSize(phase) ==
    CASE phase = "creating" -> AccountBatch
      [] phase = "updating" -> AccountBatch
      [] phase = "deleting" -> DeleteBatch
      [] phase = "inserting" -> InsertBatch

Tasks(phase) ==
    CASE phase = "creating" -> createTasks
      [] phase = "updating" -> updateTasks
      [] phase = "deleting" -> deleteTasks
      [] phase = "inserting" -> cleanedRecords

BatchPhases == { "creating", "updating", "deleting", "inserting" }

\* chunk(tasks, size): the group after `done` settled tasks
Group(phase) ==
    { i \in DOMAIN Tasks(phase) : done < i /\ i <= done + BatchSize(phase) }

\* the fetch a task issues
requestOf(phase, i) ==
    LET t == Tasks(phase)[i] IN
    CASE phase = "creating" ->
           Request("postAccount", Me, run, i, 0, t.name, t.category, << >>, 0)
      [] phase = "updating" ->
           Request("patchAccount", Me, run, i, t.id, t.name, t.category, << >>, 0)
      [] phase = "deleting" ->
           Request("deleteBalance", Me, run, i, t, << >>, << >>, << >>, 0)
      [] phase = "inserting" ->
           Request("postBalance", Me, run, i, 0, t.account, << >>, t.date, t.balance)

entriesOf(u) == { << r.account, r.date, r.balance >> : r \in balanceRows(u) }

logRun(h, st) ==
    [h EXCEPT !.log = Append(@, [file |-> file, status |-> st, clean |-> h.clean,
                                 entries |-> entriesOf(Me)])]

importVars == << pc, file, records, acctMap, createTasks, updateTasks, deleteTasks,
                 cleanedRecords, done, tstat, imported, failed, status, run >>

\* the file input's onChange: a file was chosen
ChooseFile(f) ==
    /\ pc \in { "idle", "done" }
    /\ run < MaxRuns
    /\ run' = run + 1
    /\ file' = f
    /\ status' = Status("Processing CSV", 0, 0)
    /\ pc' = "reading"
    /\ records' = << >> /\ acctMap' = << >>
    /\ createTasks' = << >> /\ updateTasks' = << >> /\ deleteTasks' = << >>
    /\ cleanedRecords' = << >>
    /\ done' = 0 /\ tstat' = << >> /\ imported' = 0 /\ failed' = 0
    /\ hist' = [hist EXCEPT !.clean = TRUE, !.outcome = << >>, !.attempts = << >>,
                            !.prior = { b.id : b \in { x \in balances : x.user = Me } },
                            !.accts0 = accounts, !.acctFailed = {},
                            !.entries0 = entriesOf(Me)]
    /\ UNCHANGED << storeVars, net >>

\* const text = await file.text(); const records = parseCsvLong(text)
ParseFile ==
    /\ pc = "reading"
    /\ LET recs == parseCsvLong(file)
       IN /\ records' = recs
          /\ IF recs = << >>
             THEN /\ status' = Status("No valid rows found", 0, 0)
                  /\ pc' = "done"
                  /\ hist' = logRun(hist, Status("No valid rows found", 0, 0))
             ELSE /\ pc' = "confirm"
                  /\ UNCHANGED << status, hist >>
    /\ UNCHANGED << storeVars, net, file, acctMap, createTasks, updateTasks,
                    deleteTasks, cleanedRecords, done, tstat, imported, failed, run >>

\* window.confirm("Replace all history with this CSV? ...")
Confirm(ok) ==
    /\ pc = "confirm"
    /\ IF ok
       THEN /\ status' = Status("Syncing accounts", 0, 0)
            /\ pc' = "getAccounts"
            /\ hist' = hist
       ELSE /\ status' = Status("Import canceled", 0, 0)
            /\ pc' = "done"
            /\ hist' = logRun(hist, status')
    /\ UNCHANGED << storeVars, net, file, records, acctMap, createTasks, updateTasks,
                    deleteTasks, cleanedRecords, done, tstat, imported, failed, run >>

\* the catch block: a rejected await ends the upload
errorExit(h) ==
    /\ status' = Status("Error importing CSV", 0, 0)
    /\ pc' = "done"
    /\ tstat' = << >>
    /\ hist' = logRun(h, status')

\* const acctList = await getAccounts(); the plan of creates and updates
GetAccounts(lost) ==
    /\ pc = "getAccounts"
    /\ lost => CanFault
    /\ IF lost
       THEN /\ errorExit(fault(hist))
            /\ UNCHANGED << acctMap, createTasks, updateTasks, done >>
       ELSE /\ acctMap' = acctMapOf(accountsOf(Me))
            /\ LET metas == desiredMetaOf(records, 1, acctMap', << >>)
               IN /\ createTasks' = createTasksOf(metas, acctMap')
                  /\ updateTasks' = updateTasksOf(metas, acctMap')
            /\ pc' = "creating"
            /\ done' = 0
            /\ UNCHANGED << status, tstat, hist >>
    /\ UNCHANGED << storeVars, net, file, records, deleteTasks, cleanedRecords,
                    imported, failed, run >>

\* Promise.all(group.map(fn => fn())) / Promise.allSettled(group.map(...)):
\* every task of the next group issues its fetch
IssueBatch ==
    /\ pc \in BatchPhases
    /\ DOMAIN tstat = {}
    /\ done < Len(Tasks(pc))
    /\ net' = net \cup { requestOf(pc, i) : i \in Group(pc) }
    /\ tstat' = [ i \in Group(pc) |-> "inflight" ]
    /\ hist' = IF pc = "inserting"
               THEN [hist EXCEPT !.attempts =
                        [ i \in DOMAIN @ |-> IF i \in Group(pc) THEN @[i] + 1 ELSE @[i] ]]
               ELSE hist
    /\ UNCHANGED << storeVars, pc, file, records, acctMap, createTasks, updateTasks,
                    deleteTasks, cleanedRecords, done, imported, failed, status, run >>

Count(what) == Cardinality({ i \in DOMAIN tstat : tstat[i] = what })

\* mutant of groupSettled: the loop goes on when the first promise settles
groupSettledFirst == \E i \in DOMAIN tstat : tstat[i] # "inflight"

\* await Promise.all(...) / await Promise.allSettled(...) of a group in which no
\* task rejects: every promise of the group has settled
groupSettled == \A i \in DOMAIN tstat : tstat[i] # "inflight"

groupRejected == \E i \in DOMAIN tstat : tstat[i] = "rejected"

\* mutant of failFast: the upserts are awaited with Promise.all too
failFastAlways(phase) == TRUE

\* runTasksInBatches awaits Promise.all, which rejects with its first rejected
\* task; the upserts are awaited with Promise.allSettled, which never rejects
failFast(phase) == phase # "inserting"

\* mutant of tally: a rejected upsert is counted nowhere
tallyFulfilled(nFulfilled, nRejected) == [imported |-> nFulfilled, failed |-> 0]

\* the results of one settled group of upserts, as { imported, failed }
tally(nFulfilled, nRejected) == [imported |-> nFulfilled, failed |-> nRejected]

\* the group has settled and the loop goes on
FinishBatch ==
    /\ pc \in BatchPhases
    /\ DOMAIN tstat # {}
    /\ groupSettled
    /\ failFast(pc) => ~groupRejected
    /\ done' = done + Cardinality(DOMAIN tstat)
    /\ tstat' = << >>
    /\ IF pc = "inserting"
       THEN /\ imported' = imported + tally(Count("fulfilled"), Count("rejected")).imported
            /\ failed' = failed + tally(Count("fulfilled"), Count("rejected")).failed
            /\ status' = Status("Importing balances", imported', Len(cleanedRecords))
       ELSE /\ UNCHANGED << imported, failed >>
            /\ status' = Status(pc, done', Len(Tasks(pc)))
    /\ UNCHANGED << storeVars, net, pc, file, records, acctMap, createTasks,
                    updateTasks, deleteTasks, cleanedRecords, run, hist >>

\* Promise.all rejects as soon as one task of the group rejects
Abort ==
    /\ pc \in BatchPhases
    /\ failFast(pc)
    /\ groupRejected
    /\ errorExit(hist)
    /\ UNCHANGED << storeVars, net, file, records, acctMap, createTasks, updateTasks,
                    deleteTasks, cleanedRecords, done, imported, failed, run >>

\* runTasksInBatches returns: creates, then updates, then the old balances
EndAccounts ==
    /\ pc \in { "creating", "updating" }
    /\ DOMAIN tstat = {}
    /\ done = Len(Tasks(pc))
    /\ done' = 0
    /\ IF pc = "creating"
       THEN pc' = "updating" /\ UNCHANGED status
       ELSE pc' = "getBalances" /\ status' = Status("Deleting old balances", 0, 0)
    /\ UNCHANGED << storeVars, net, file, records, acctMap, createTasks, updateTasks,
                    deleteTasks, cleanedRecords, tstat, imported, failed, run, hist >>

\* const current = await getBalances(); one delete task per row with an id
GetBalances(lost) ==
    /\ pc = "getBalances"
    /\ lost => CanFault
    /\ IF lost
       THEN /\ errorExit(fault(hist))
            /\ UNCHANGED deleteTasks
       ELSE /\ deleteTasks' = idsInOrder({ r.id : r \in balanceRows(Me) })
            /\ pc' = "deleting"
            /\ UNCHANGED << status, tstat, hist >>
    /\ UNCHANGED << storeVars, net, file, records, acctMap, createTasks, updateTasks,
                    cleanedRecords, done, imported, failed, run >>

\* the deletes are through: clean + validate, then the upserts
EndDeletes ==
    /\ pc = "deleting"
    /\ DOMAIN tstat = {}
    /\ done = Len(deleteTasks)
    /\ status' = Status("Importing balances", 0, 0)
    /\ pc' = "inserting"
    /\ done' = 0
    /\ LET cleaned == cleanAll(records, 1)
       IN /\ cleanedRecords' = cleaned
          /\ hist' = [hist EXCEPT !.attempts = [ i \in DOMAIN cleaned |-> 0 ],
                                  !.outcome = [ i \in DOMAIN cleaned |-> "none" ]]
    /\ UNCHANGED << storeVars, net, file, records, acctMap, createTasks, updateTasks,
                    deleteTasks, tstat, imported, failed, run >>

EndInserts ==
    /\ pc = "inserting"
    /\ DOMAIN tstat = {}
    /\ done = Len(cleanedRecords)
    /\ pc' = "loading"
    /\ UNCHANGED << storeVars, net, file, records, acctMap, createTasks, updateTasks,
                    deleteTasks, cleanedRecords, done, tstat, imported, failed, status,
                    run, hist >>

\* await load(); setStatus(`Imported ...`)
Load(lost) ==
    /\ pc = "loading"
    /\ lost => CanFault
    /\ IF lost
       THEN errorExit(fault(hist))
       ELSE /\ status' = finalStatus(imported, failed)
            /\ pc' = "done"
            /\ tstat' = tstat
            /\ hist' = logRun(hist, status')
    /\ UNCHANGED << storeVars, net, file, records, acctMap, createTasks, updateTasks,
                    deleteTasks, cleanedRecords, done, imported, failed, run >>

(***************************************************************************)
(* The server's handlers, one action per statement that other requests can *)
(* interleave with.  `lost`: the response does not reach the client (the   *)
(* fetch rejects although the server has acted).                           *)
(***************************************************************************)
\* what the awaiting task becomes: the update task catches its own errors
taskOutcome(kind, rejected) ==
    IF kind # "patchAccount" /\ rejected THEN "rejected" ELSE "fulfilled"

\* a request that never reaches the server: the fetch rejects
NetDrop(r) ==
    /\ r \in net /\ r.step = 1
    /\ Awaited(r)
    /\ CanFault
    /\ net' = net \ { r }
    /\ tstat' = settle(r, taskOutcome(r.kind, TRUE))
    /\ hist' = noteAccount(noteUpsert(fault(hist), r, "rejected"), r, "rejected")
    /\ UNCHANGED << storeVars, pc, file, records, acctMap, createTasks, updateTasks,
                    deleteTasks, cleanedRecords, done, imported, failed, status, run >>

\* app.post("/accounts").  `storeErr`: the INSERT fails in the store and the
\* handler answers 400; addAccount returns r.json() whatever the HTTP status
ServePostAccount(r, storeErr, lost) ==
    /\ r \in net /\ r.kind = "postAccount"
    /\ (storeErr \/ lost) => CanFault /\ Awaited(r)
    /\ ~(storeErr /\ lost)
    /\ LET name == trim(r.name)
           inserts == name # << >> /\ ~nameTaken(r.user, name) /\ ~storeErr
       IN /\ accounts' = IF inserts
                         THEN accounts \cup { [id |-> nextAccountId, user |-> r.user,
                                               name |-> name, category |-> r.category] }
                         ELSE accounts
          /\ nextAccountId' = IF inserts THEN nextAccountId + 1 ELSE nextAccountId
    /\ net' = net \ { r }
    /\ tstat' = settle(r, taskOutcome(r.kind, lost))
    /\ acctMap' = IF r.run = run /\ r.run > 0 /\ ~lost
                  THEN [ k \in DOMAIN acctMap \cup { toLowerCase(r.name) } |->
                           IF k = toLowerCase(r.name)
                           THEN [id |-> 0, name |-> r.name, category |-> r.category]
                           ELSE acctMap[k] ]
                  ELSE acctMap
    /\ hist' = IF lost THEN noteAccount(fault(hist), r, "rejected")
               ELSE IF storeErr THEN noteAccount(fault(hist), r, "error")
               ELSE IF r.run = run /\ r.run > 0
                       /\ (trim(r.name) = << >> \/ nameTaken(r.user, trim(r.name)))
               THEN noteAccount([hist EXCEPT !.clean = FALSE], r, "error")
               ELSE hist
    /\ UNCHANGED << balances, nextBalanceId, pc, file, records, createTasks,
                    updateTasks, deleteTasks, cleanedRecords, done, imported, failed,
                    status, run >>

\* app.patch("/accounts/:id")
ServePatchAccount(r, lost) ==
    /\ r \in net /\ r.kind = "patchAccount"
    /\ lost => CanFault /\ Awaited(r)
    /\ LET name == trim(r.name)
           category == IF r.category = << >> THEN S_other ELSE r.category
           hit == { a \in accounts : a.id = r.id /\ a.user = r.user }
           clash == \E a \in accounts : a.user = r.user /\ a.name = name /\ a.id # r.id
           updates == name # << >> /\ hit # {} /\ ~clash
       IN /\ accounts' = IF updates
                         THEN { IF a \in hit
                                THEN [a EXCEPT !.name = name, !.category = category]
                                ELSE a : a \in accounts }
                         ELSE accounts
          /\ acctMap' = IF updates /\ r.run = run /\ r.run > 0 /\ ~lost
                           /\ toLowerCase(name) \in DOMAIN acctMap
                        THEN [acctMap EXCEPT ![toLowerCase(name)].category = r.category]
                        ELSE acctMap
          /\ hist' = IF lost THEN noteAccount(fault(hist), r, "rejected")
                     ELSE IF ~updates /\ r.run = run /\ r.run > 0
                     THEN noteAccount([hist EXCEPT !.clean = FALSE], r, "error")
                     ELSE hist
    /\ net' = net \ { r }
    /\ tstat' = settle(r, taskOutcome(r.kind, lost))
    /\ UNCHANGED << balances, nextAccountId, nextBalanceId, pc, file, records,
                    createTasks, updateTasks, deleteTasks, cleanedRecords, done,
                    imported, failed, status, run >>

\* app.delete("/balances/:id")
ServeDeleteBalance(r, lost) ==
    /\ r \in net /\ r.kind = "deleteBalance"
    /\ lost => CanFault /\ Awaited(r)
    /\ balances' = { b \in balances : ~(b.id = r.id /\ b.user = r.user) }
    /\ net' = net \ { r }
    /\ tstat' = settle(r, taskOutcome(r.kind, lost))
    /\ hist' = IF lost THEN fault(hist) ELSE hist
    /\ UNCHANGED << accounts, nextAccountId, nextBalanceId, pc, file, records, acctMap,
                    createTasks, updateTasks, deleteTasks, cleanedRecords, done,
                    imported, failed, status, run >>

\* app.post("/balances"), first statement:
\* INSERT OR IGNORE INTO accounts(user_id, name) VALUES (?, ?)
ServePostBalanceAccount(r) ==
    /\ r \in net /\ r.kind = "postBalance" /\ r.step = 1
    /\ IF r.name = << >> \/ r.date = << >>
       THEN \* 400 "account, date, balance required"
            /\ net' = net \ { r }
            /\ tstat' = settle(r, "fulfilled")
            /\ hist' = noteUpsert(hist, r, "error")
            /\ UNCHANGED << accounts, nextAccountId >>
       ELSE /\ accounts' = IF nameTaken(r.user, r.name) THEN accounts
                           ELSE accounts \cup { [id |-> nextAccountId, user |-> r.user,
                                                 name |-> r.name, category |-> S_other] }
            /\ nextAccountId' = IF nameTaken(r.user, r.name) THEN nextAccountId
                                ELSE nextAccountId + 1
            /\ net' = (net \ { r }) \cup { [r EXCEPT !.step = 2] }
            /\ UNCHANGED << tstat, hist >>
    /\ UNCHANGED << balances, nextBalanceId, pc, file, records, acctMap, createTasks,
                    updateTasks, deleteTasks, cleanedRecords, done, imported, failed,
                    status, run >>

\* second statement: SELECT id FROM accounts WHERE user_id=? AND name=?
\* acct = 0 stands for undefined (no such row)
ServePostBalanceSelect(r) ==
    /\ r \in net /\ r.kind = "postBalance" /\ r.step = 2
    /\ LET found == { a \in accounts : a.user = r.user /\ a.name = r.name }
       IN net' = (net \ { r }) \cup
                 { [r EXCEPT !.step = 3,
                             !.acct = IF found = {} THEN 0
                                      ELSE (CHOOSE a \in found : TRUE).id] }
    /\ UNCHANGED << storeVars, pc, file, records, acctMap, createTasks, updateTasks,
                    deleteTasks, cleanedRecords, done, tstat, imported, failed, status,
                    run, hist >>

\* what addBalance makes of the response to POST /balances: it returns r.json()
\* whatever the HTTP status, and rejects only when the fetch does
addBalanceOutcome(httpOk, lost) == IF lost THEN "rejected" ELSE "fulfilled"

\* third statement, in try/catch: the upsert.  `storeErr`: the statement
\* fails in the store (db.run calls back with err) and the handler answers 400
ServePostBalanceUpsert(r, storeErr, lost) ==
    /\ r \in net /\ r.kind = "postBalance" /\ r.step = 3
    /\ (storeErr \/ lost) => CanFault /\ Awaited(r)
    /\ ~(storeErr /\ lost)
    /\ LET httpOk == r.acct # 0 /\ ~storeErr
       IN /\ balances' = IF httpOk THEN upsertRow(r.user, r.acct, r.date, r.balance)
                         ELSE balances
          /\ nextBalanceId' = IF httpOk /\ upsertInserts(r.acct, r.date)
                              THEN nextBalanceId + 1 ELSE nextBalanceId
          /\ tstat' = settle(r, addBalanceOutcome(httpOk, lost))
          /\ hist' = LET h == IF storeErr \/ lost THEN fault(hist)
                              ELSE IF ~httpOk /\ r.run = run /\ r.run > 0
                              THEN [hist EXCEPT !.clean = FALSE] ELSE hist
                     IN noteUpsert(h, r, IF lost THEN "rejected"
                                         ELSE IF httpOk THEN "ok" ELSE "error")
    /\ net' = net \ { r }
    /\ UNCHANGED << accounts, nextAccountId, pc, file, records, acctMap, createTasks,
                    updateTasks, deleteTasks, cleanedRecords, done, imported, failed,
                    status, run >>

\* mutant of ServePatchBalance: UPDATE balances SET balance = ? WHERE id = ?
ServePatchBalanceAnyOwner(r) ==
    /\ r \in net /\ r.kind = "patchBalance"
    /\ balances' = { IF b.id = r.id THEN [b EXCEPT !.balance = r.balance] ELSE b :
                      b \in balances }
    /\ net' = net \ { r }
    /\ UNCHANGED << accounts, nextAccountId, nextBalanceId, importVars, hist >>

\* app.patch("/balances/:id")
ServePatchBalance(r) ==
    /\ r \in net /\ r.kind = "patchBalance"
    /\ balances' = { IF b.id = r.id /\ b.user = r.user
                     THEN [b EXCEPT !.balance = r.balance] ELSE b : b \in balances }
    /\ net' = net \ { r }
    /\ UNCHANGED << accounts, nextAccountId, nextBalanceId, importVars, hist >>

\* app.delete("/accounts/:id"), first statement:
\* DELETE FROM balances WHERE account_id = ? AND user_id = ?
ServeDeleteAccountBalances(r) ==
    /\ r \in net /\ r.kind = "deleteAccount" /\ r.step = 1
    /\ balances' = { b \in balances : ~(b.account_id = r.id /\ b.user = r.user) }
    /\ net' = (net \ { r }) \cup { [r EXCEPT !.step = 2] }
    /\ UNCHANGED << accounts, nextAccountId, nextBalanceId, importVars, hist >>

\* second statement: DELETE FROM accounts WHERE id = ? AND user_id = ?
ServeDeleteAccountRow(r) ==
    /\ r \in net /\ r.kind = "deleteAccount" /\ r.step = 2
    /\ accounts' = { a \in accounts : ~(a.id = r.id /\ a.user = r.user) }
    /\ net' = net \ { r }
    /\ UNCHANGED << balances, nextAccountId, nextBalanceId, importVars, hist >>

(***************************************************************************)
(* Requests of other clients (other tabs, other users)                     *)
(***************************************************************************)
D0 == << "2","0","2","3","-","1","2","-","3","1" >>
D1 == << "2","0","2","4","-","0","1","-","0","1" >>
D2 == << "2","0","2","4","-","0","1","-","0","2" >>
N_S == << "S" >>
N_M == << "M" >>

OtherRequests ==
    LET n == hist.ops + 1 IN
    { Request("postBalance", u, 0, n, 0, name, << >>, D1, 4) :
        u \in Users, name \in { N_S, N_M } }
    \cup { Request("patchBalance", u, 0, n, b.id, << >>, << >>, << >>, 4) :
        u \in Users, b \in balances }
    \cup { Request("deleteBalance", u, 0, n, b.id, << >>, << >>, << >>, 0) :
        u \in Users, b \in balances }
    \cup { Request("postAccount", u, 0, n, 0, name, S_mortgage, << >>, 0) :
        u \in Users, name \in { N_S, N_M } }
    \cup { Request("patchAccount", u, 0, n, a.id, name, S_loans, << >>, 0) :
        u \in Users, a \in accounts, name \in { N_S, N_M } }
    \cup { Request("deleteAccount", u, 0, n, a.id, << >>, << >>, << >>, 0) :
        u \in Users, a \in accounts }

\* clients have started fewer than MaxOps operations, uploads included
OpsLeft == hist.ops + run < MaxOps

OtherRequest(req) ==
    /\ OpsLeft
    /\ net' = net \cup { req }
    /\ hist' = [hist EXCEPT !.ops = @ + 1]
    /\ UNCHANGED << storeVars, importVars >>

(***************************************************************************)
(* Files and initial stores                                                *)
(***************************************************************************)
Comma == << "," >>
Newline == << "\n" >>

RECURSIVE Join(_, _)
Join(seqs, sep) ==
    IF seqs = << >> THEN << >>
    ELSE IF Len(seqs) = 1 THEN seqs[1]
    ELSE seqs[1] \o sep \o Join(Tail(seqs), sep)

Row(cols) == Join(cols, Comma)
Text(lines) == Join(lines, Newline)

Header5 == Row(<< S_date, S_account, S_category, S_type, S_balance >>)
Header3 == Row(<< S_date, S_account, S_balance >>)
LegacyRow == << "1","/","2","/","2","4",",","S","a","v","i","n","g","s",",","5","0","0" >>
MalformedRow == Row(<< D1, << >>, << >>, << >>, << "a","b","c" >> >>)
RowS1 == Row(<< D1, N_S, << "1" >> >>)
RowS2 == Row(<< D1, N_S, << "2" >> >>)
RowM3 == Row(<< D2, N_M, S_mortgage, << "l","i","a","b","i","l","i","t","y" >>, << "3" >> >>)
RowType4 == Row(<< D2, << "s" >>, S_asset, << "$","7" >> >>)
RowShort == Row(<< D1, N_S >>)
RowNoBalance == Row(<< D1, N_S, << " " >> >>)
RowDebt4 == Row(<< D2, N_M, S_liab, << "4" >> >>)

FileEmpty == << >>
FileLegacy == LegacyRow
FileLedger == Text(<< RowS1, RowS2, RowM3 >>)
FileMalformed == Text(<< RowS1, MalformedRow >>)
FileCase == Text(<< RowType4, RowNoBalance >>)
FileUndated == Text(<< RowS1, Row(<< << "x" >>, N_S, << "2" >> >>) >>)
FileDebt == Text(<< RowS1, RowDebt4 >>)

\* the files uploaded in ImportSpec and Spec
Files == { FileEmpty, FileLegacy, FileLedger, FileMalformed, FileCase, FileUndated,
           FileDebt }

\* the lines the texts of ParseSpec are made of
ParseLines == { Header5, Header3, LegacyRow, MalformedRow, RowS1, RowM3, RowType4,
                RowShort, RowNoBalance }

RECURSIVE LineSeqs(_)
LineSeqs(n) ==
    IF n = 0 THEN { << >> }
    ELSE LET shorter == LineSeqs(n - 1)
         IN shorter \cup { Append(ls, l) : ls \in { x \in shorter : Len(x) = n - 1 },
                                           l \in ParseLines }

ParseTexts == { Text(ls) : ls \in LineSeqs(MaxLines) }

\* the parts date strings are made of: empty, numbers of one to four digits,
\* a number with a sign, a number in blanks, and a part that is no number
DateTokens == { << >>, << "2" >>, << "1","2" >>, << "2","4" >>, << "2","0","2","4" >>,
                << "-","2","0","2","4" >>, << " ","3"," " >>, << "x" >> }

RECURSIVE PartSeqs(_)
PartSeqs(n) ==
    IF n = 0 THEN { << >> }
    ELSE LET shorter == PartSeqs(n - 1)
         IN shorter \cup { Append(ps, t) : ps \in { x \in shorter : Len(x) = n - 1 },
                                           t \in DateTokens }

DateStrings == { Join(ps, sep) : ps \in PartSeqs(MaxParts) \ { << >> },
                                 sep \in { << "/" >>, << "-" >> } }

\* a ledger whose one row is dated s
DateFile(s) == Text(<< Header3, Row(<< s, N_S, << "1" >> >>) >>)

EmptyStore == [accounts |-> {}, balances |-> {}, nextAccountId |-> 1, nextBalanceId |-> 1]

\* a store after earlier use: two accounts and three balances of Me, and an
\* account with a balance of the other user
UsedStore ==
    [accounts |-> { [id |-> 1, user |-> 1, name |-> N_S, category |-> S_cash],
                    [id |-> 2, user |-> 1, name |-> N_M, category |-> S_mortgage],
                    [id |-> 3, user |-> 2, name |-> N_S, category |-> S_other] },
     balances |-> { [id |-> 1, user |-> 1, account_id |-> 1, date |-> D0, balance |-> 5],
                    [id |-> 2, user |-> 1, account_id |-> 1, date |-> D1, balance |-> 6],
                    [id |-> 3, user |-> 1, account_id |-> 2, date |-> D1, balance |-> 7],
                    [id |-> 4, user |-> 2, account_id |-> 3, date |-> D1, balance |-> 9] },
     nextAccountId |-> 4, nextBalanceId |-> 5]

Stores == { EmptyStore, UsedStore }

Init ==
    /\ \E s \in Stores :
         /\ accounts = s.accounts /\ balances = s.balances
         /\ nextAccountId = s.nextAccountId /\ nextBalanceId = s.nextBalanceId
    /\ net = {}
    /\ pc = "idle" /\ file = << >> /\ records = << >> /\ acctMap = << >>
    /\ createTasks = << >> /\ updateTasks = << >> /\ deleteTasks = << >>
    /\ cleanedRecords = << >>
    /\ done = 0 /\ tstat = << >> /\ imported = 0 /\ failed = 0
    /\ status = Status("", 0, 0)
    /\ run = 0
    /\ hist = [faults |-> 0, ops |-> 0, clean |-> TRUE, outcome |-> << >>,
               attempts |-> << >>, prior |-> {}, accts0 |-> {}, acctFailed |-> {},
               entries0 |-> {},
               log |-> << >>]

(***************************************************************************)
(* Time series and chart rollup                                            *)
(***************************************************************************)
RECURSIVE SumOver(_, _)
SumOver(S, f) ==
    IF S = {} THEN 0
    ELSE LET x == CHOOSE y \in S : TRUE IN f[x] + SumOver(S \ { x }, f)

\* mutant of timeseries: netWorth keeps adding up over the points of the loop
timeseriesRunningTotal(u) ==
    LET rows == balanceRows(u)
        point(d) ==
            LET names == { r.account : r \in { x \in rows : x.date = d } }
                accts == [ n \in names |->
                             (CHOOSE r \in rows : r.date = d /\ r.account = n).balance ]
                upTo == { r \in rows : r.date = d \/ LessStr(r.date, d) }
            IN [date |-> d, accounts |-> accts,
                netWorth |-> SumOver({ r.id : r \in upTo },
                                     [ i \in { r.id : r \in upTo } |->
                                         (CHOOSE r \in upTo : r.id = i).balance ])]
    IN { point(d) : d \in { r.date : r \in rows } }

\* app.get("/timeseries"): one point per date, accounts[name] = balance,
\* netWorth = sum of the values of accounts
timeseries(u) ==
    LET rows == balanceRows(u)
        point(d) ==
            LET names == { r.account : r \in { x \in rows : x.date = d } }
                accts == [ n \in names |->
                             (CHOOSE r \in rows : r.date = d /\ r.account = n).balance ]
            IN [date |-> d, accounts |-> accts, netWorth |-> SumOver(names, accts)]
    IN { point(d) : d \in { r.date : r \in rows } }

categoriesOrder == << S_cash, S_stocks, S_crypto, S_retirement, S_property, S_other >>

\* new Map(accounts.map(a => [a.name, (a.category || "other").toLowerCase()]))
acctCategoryOf(u) ==
    LET list == accountsOf(u) IN
    [ n \in { a.name : a \in list } |->
        LET a == CHOOSE x \in list : x.name = n
        IN toLowerCase(IF a.category = << >> THEN S_other ELSE a.category) ]

\* one row of chartData: netWorth as served, and one field per category of
\* categoriesOrder
chartRow(d, acctCategory) ==
    LET cat(n) == IF n \in DOMAIN acctCategory THEN acctCategory[n] ELSE S_other
        catSum(c) == SumOver({ n \in DOMAIN d.accounts : cat(n) = c }, d.accounts)
    IN [date |-> d.date, iso |-> toIsoDate(d.date), netWorth |-> d.netWorth,
        fields |-> [ i \in DOMAIN categoriesOrder |-> catSum(categoriesOrder[i]) ]]

chartData(u) == { chartRow(d, acctCategoryOf(u)) : d \in timeseries(u) }

step == 500000

\* Math.floor(x / step) * step and Math.ceil(x / step) * step
floorStep(x) == (x \div step) * step
ceilStep(x) == (0 - ((0 - x) \div step)) * step

\* mutant of ticksFrom: the loop stops before maxTick
ticksFromExclusive(minTick, maxTick) ==
    [ i \in 1..((maxTick - minTick) \div step) |-> minTick + (i - 1) * step ]

\* for (let t = minTick; t <= maxTick; t += step) ticks.push(t)
ticksFrom(minTick, maxTick) ==
    [ i \in 1..((maxTick - minTick) \div step + 1) |-> minTick + (i - 1) * step ]

\* computeY(rows): allVals holds netWorth and the sum of the category fields
\* of every row; "auto" is the string the code returns for no value
computeY(rows) ==
    LET valid == { r.netWorth : r \in rows }
                 \cup { SumOver(DOMAIN r.fields, r.fields) : r \in rows }
        lo == CHOOSE v \in valid : \A w \in valid : v <= w
        hi == CHOOSE v \in valid : \A w \in valid : w <= v
        min == IF lo = hi THEN lo - step ELSE lo
        max == IF lo = hi THEN hi + step ELSE hi
    IN IF valid = {} THEN [domain |-> << "auto", "auto" >>, ticks |-> << >>]
       ELSE [domain |-> << floorStep(min), ceilStep(max) >>,
             ticks |-> ticksFrom(floorStep(min), ceilStep(max))]

\* Array.prototype.sort with (a, b) => key[a] - key[b]: stable
RECURSIVE insertByKey(_, _, _)
insertByKey(x, sorted, key) ==
    IF sorted = << >> THEN << x >>
    ELSE IF key[x] < key[Head(sorted)] THEN << x >> \o sorted
    ELSE << Head(sorted) >> \o insertByKey(x, Tail(sorted), key)

RECURSIVE sortByKey(_, _)
sortByKey(seq, key) ==
    IF seq = << >> THEN << >>
    ELSE insertByKey(seq[Len(seq)], sortByKey(SubSeq(seq, 1, Len(seq) - 1), key), key)

\* new Date(ms): the year, month and day of month of a timestamp in days
civilFromDays(z) ==
    LET z0 == z + 719468
        era == z0 \div 146097
        doe == z0 - era * 146097
        yoe == (doe - (doe \div 1460) + (doe \div 36524) - (doe \div 146096)) \div 365
        doy == doe - (365 * yoe + (yoe \div 4) - (yoe \div 100))
        mp == (5 * doy + 2) \div 153
        m == IF mp < 10 THEN mp + 3 ELSE mp - 9
    IN [y |-> yoe + era * 400 + (IF m <= 2 THEN 1 ELSE 0), m |-> m,
        d |-> doy - ((153 * mp + 2) \div 5) + 1]

getUTCFullYear(ms) == civilFromDays(ms).y
getUTCMonth(ms) == civilFromDays(ms).m - 1
getUTCDate(ms) == civilFromDays(ms).d

monthStartMs(iso) ==
    LET p == parseDateParts(iso) IN
    IF ~p.ok THEN 0 ELSE DateUTC(p.y, p.m - 1, 1)

\* the points of getTimeseries() in the order served: by date
RECURSIVE seriesInOrder(_)
seriesInOrder(points) ==
    IF points = {} THEN << >>
    ELSE LET first == CHOOSE d \in points :
                          \A e \in points \ { d } : LessStr(d.date, e.date)
         IN << first >> \o seriesInOrder(points \ { first })

\* series.map(d => ({ ...d, iso, ms })).sort((a, b) => a.ms - b.ms).  The
\* date helpers of Charts.jsx are those of the history page but for the trim,
\* and equal them on dates without blanks at the ends.
normalized(u) ==
    LET served == seriesInOrder(timeseries(u))
        points == [ i \in DOMAIN served |->
                      [date |-> served[i].date, iso |-> toIsoDate(served[i].date),
                       ms |-> dateMs(toIsoDate(served[i].date)),
                       accounts |-> served[i].accounts,
                       netWorth |-> served[i].netWorth] ]
    IN sortByKey(points, [ x \in { points[i] : i \in DOMAIN points } |-> x.ms ])

\* mutant of monthTicksFrom: the cursor moves on by thirty days
RECURSIVE monthTicksEvery30Days(_, _)
monthTicksEvery30Days(cursor, end) ==
    IF cursor > end THEN << >>
    ELSE << cursor >> \o monthTicksEvery30Days(cursor + 30, end)

\* while (cursor <= end) { ticks.push(cursor); cursor = Date.UTC(year of
\* cursor, month of cursor + 1, 1) }
RECURSIVE monthTicksFrom(_, _)
monthTicksFrom(cursor, end) ==
    IF cursor > end THEN << >>
    ELSE << cursor >>
         \o monthTicksFrom(DateUTC(getUTCFullYear(cursor), getUTCMonth(cursor) + 1, 1),
                           end)

monthTicks(u) ==
    LET n == normalized(u) IN
    IF n = << >> THEN << >>
    ELSE monthTicksFrom(monthStartMs(n[1].iso), monthStartMs(n[Len(n)].iso))

\* mutant of closestFrom: a point is taken only when it is closer
RECURSIVE closestFromStrict(_, _, _, _, _)
closestFromStrict(n, i, targetMs, closest, diff) ==
    IF i > Len(n) THEN closest
    ELSE LET d == n[i].ms - targetMs
             ndiff == IF d < 0 THEN 0 - d ELSE d
         IN IF ndiff < diff THEN closestFromStrict(n, i + 1, targetMs, n[i], ndiff)
            ELSE closest

\* for (const d of normalized) { if (ndiff <= diff) {...} else break; }
RECURSIVE closestFrom(_, _, _, _, _)
closestFrom(n, i, targetMs, closest, diff) ==
    IF i > Len(n) THEN closest
    ELSE LET d == n[i].ms - targetMs
             ndiff == IF d < 0 THEN 0 - d ELSE d
         IN IF ndiff <= diff THEN closestFrom(n, i + 1, targetMs, n[i], ndiff)
            ELSE closest

\* the point pieData shows for the date picked (<< >>: none picked)
pieClosest(u, pieDate) ==
    LET n == normalized(u)
        targetIso == IF pieDate # << >> THEN toIsoDate(pieDate) ELSE n[Len(n)].iso
        targetMs == dateMs(targetIso)
        d0 == n[1].ms - targetMs
    IN closestFrom(n, 1, targetMs, n[1], IF d0 < 0 THEN 0 - d0 ELSE d0)

(***************************************************************************)
(* History: the state derived from load() and the CSV download             *)
(***************************************************************************)
\* the rows of getBalances() in ORDER BY b.date ASC, a.name ASC
RECURSIVE rowsInOrder(_)
rowsInOrder(rows) ==
    IF rows = {} THEN << >>
    ELSE LET before(r, q) == \/ LessStr(r.date, q.date)
                             \/ r.date = q.date /\ LessStr(r.account, q.account)
                             \/ r.date = q.date /\ r.account = q.account /\ r.id < q.id
             first == CHOOSE r \in rows : \A q \in rows \ { r } : before(r, q)
         IN << first >> \o rowsInOrder(rows \ { first })

\* [...new Set(seq)]: the first occurrence of every element, in order
RECURSIVE distinctInOrder(_)
distinctInOrder(seq) ==
    IF seq = << >> THEN << >>
    ELSE LET front == distinctInOrder(SubSeq(seq, 1, Len(seq) - 1))
             last == seq[Len(seq)]
         IN IF \E i \in DOMAIN front : front[i] = last THEN front
            ELSE Append(front, last)

\* a.localeCompare(b) < 0 for names of letters: by letter first, and the
\* lower-case letter first where only the case differs
localeLess(a, b) ==
    IF toLowerCase(a) # toLowerCase(b) THEN LessStr(toLowerCase(a), toLowerCase(b))
    ELSE \E k \in DOMAIN a :
            /\ \A j \in 1..(k - 1) : a[j] = b[j]
            /\ a[k] # b[k] /\ IndexIn(LowerChars, a[k]) > 0

\* accountCategory: the category of every account, "other" for a name that
\* only the balances carry
accountCategory(acctList, rows) ==
    [ n \in { a.name : a \in acctList } \cup { r.account : r \in rows } |->
        IF \E a \in acctList : a.name = n
        THEN LET a == CHOOSE x \in acctList : x.name = n
             IN toLowerCase(IF a.category = << >> THEN S_other ELSE a.category)
        ELSE S_other ]

\* allColumns: the asset names, then the liability names, each in the order
\* of their category and then of their name
RECURSIVE columnsInOrder(_, _)
columnsInOrder(names, cat) ==
    IF names = {} THEN << >>
    ELSE LET rank(n) ==
                 LET order == IF categoryType(cat[n]) = "asset"
                              THEN assetCategories ELSE liabilityCategories
                     idx == IndexIn(order, cat[n])
                 IN (IF categoryType(cat[n]) = "asset" THEN 0 ELSE 100)
                    + (IF idx = 0 THEN Len(order) ELSE idx - 1)
             before(n, k) == rank(n) < rank(k) \/ (rank(n) = rank(k) /\ localeLess(n, k))
             first == CHOOSE n \in names : \A k \in names \ { n } : before(n, k)
         IN << first >> \o columnsInOrder(names \ { first }, cat)

\* downloadCsv on the balances and accounts that load() has fetched: the
\* rows as lists of five columns, the header first
downloadRows(acctList, rows) ==
    LET balanceList == rowsInOrder(rows)
        isoList == [ i \in DOMAIN balanceList |-> toIsoDate(balanceList[i].date) ]
        isoSet == { isoList[i] : i \in DOMAIN isoList }
        dates == sortByKey(distinctInOrder(isoList), [ d \in isoSet |-> 0 - dateMs(d) ])
        sortedDates == sortByKey(dates, [ d \in isoSet |-> dateMs(d) ])
        cat == accountCategory(acctList, rows)
        cols == columnsInOrder(DOMAIN cat, cat)
        \* byDate.get(date).get(acct): the last balance of the list for the key
        entry(date, acct) ==
            LET hits == { i \in DOMAIN balanceList :
                            isoList[i] = date /\ balanceList[i].account = acct }
            IN IF hits = {} THEN << >>
               ELSE << balanceList[CHOOSE i \in hits : \A j \in hits : j <= i] >>
        rowOf(date, acct) ==
            IF entry(date, acct) = << >> THEN << >>
            ELSE << << formatDate(date), acct, sanitizeCategory(cat[acct]),
                       categoryType(cat[acct]), String(entry(date, acct)[1].balance) >> >>
        RECURSIVE rowsOfDate(_, _)
        rowsOfDate(date, i) ==
            IF i > Len(cols) THEN << >>
            ELSE rowOf(date, cols[i]) \o rowsOfDate(date, i + 1)
        RECURSIVE rowsFrom(_)
        rowsFrom(i) ==
            IF i > Len(sortedDates) THEN << >>
            ELSE rowsOfDate(sortedDates[i], 1) \o rowsFrom(i + 1)
    IN << << S_date, S_account, S_category, S_type, S_balance >> >> \o rowsFrom(1)

\* what the download writes for the user of the session, after a load()
downloadCsv == downloadRows(accountsOf(Me), balanceRows(Me))

(***************************************************************************)
(* Specifications                                                          *)
(***************************************************************************)
\* the steps of an upload after the file was chosen, and the server's part
\* the continuations of the upload that wait for nothing but the browser
ClientSteps ==
    \/ \E lost \in BOOLEAN : GetAccounts(lost)
    \/ IssueBatch
    \/ FinishBatch
    \/ Abort
    \/ EndAccounts
    \/ \E lost \in BOOLEAN : GetBalances(lost)
    \/ EndInserts
    \/ \E lost \in BOOLEAN : Load(lost)

\* a call in flight fails or is handled by the server
ServerSteps ==
    \/ \E r \in net : NetDrop(r)
    \/ \E r \in net, storeErr \in BOOLEAN, lost \in BOOLEAN :
           ServePostAccount(r, storeErr, lost)
    \/ \E r \in net, lost \in BOOLEAN : ServePatchAccount(r, lost)
    \/ \E r \in net, lost \in BOOLEAN : ServeDeleteBalance(r, lost)
    \/ \E r \in net : ServePostBalanceAccount(r)
    \/ \E r \in net : ServePostBalanceSelect(r)
    \/ \E r \in net, storeErr \in BOOLEAN, lost \in BOOLEAN :
           ServePostBalanceUpsert(r, storeErr, lost)

ImportSteps ==
    \/ ParseFile
    \/ \E ok \in BOOLEAN : Confirm(ok)
    \/ ClientSteps
    \/ EndDeletes
    \/ ServerSteps

\* one browser session importing files, no other client
ImportNext ==
    \/ \E f \in Files : ChooseFile(f)
    \/ ImportSteps

ImportSpec == Init /\ [][ImportNext]_vars

\* the step of EndDeletes, named by its guard and the phase it leads to
CleanStep ==
    /\ pc = "deleting" /\ DOMAIN tstat = {} /\ done = Len(deleteTasks)
    /\ pc' = "inserting"

LiveFiles == { FileLedger, FileDebt }

LiveNext ==
    \/ \E f \in LiveFiles : run = 0 /\ ChooseFile(f)
    \/ ImportSteps

\* one upload when the browser runs every continuation that is ready and
\* every call in flight is handled or fails; the confirmation is the user's
LiveSpec ==
    /\ Init /\ [][LiveNext]_vars
    /\ WF_vars(ClientSteps) /\ WF_pc(CleanStep) /\ WF_vars(ServerSteps)

\* the parser alone, on every text of at most MaxLines lines
ParseNext ==
    \/ \E f \in ParseTexts : run = 0 /\ ChooseFile(f)
    \/ ParseFile

ParseSpec == Init /\ [][ParseNext]_vars

\* the date helpers alone, on a row dated with every string of DateStrings
DateNext ==
    \/ \E s \in DateStrings : run = 0 /\ ChooseFile(DateFile(s))
    \/ ParseFile

DateSpec == Init /\ [][DateNext]_vars

\* balances that make the chart values span several steps of the y axis
ChartValues == { 0 - 1200000, 0 - 500000, 0 - 1, 0, 3, 500000, 700000 }

ChartRequests ==
    LET n == hist.ops + 1
        mine == { b \in balances : b.user = Me }
    IN { Request("patchBalance", Me, 0, n, b.id, << >>, << >>, << >>, v) :
           b \in mine, v \in ChartValues }
       \cup { Request("deleteBalance", Me, 0, n, b.id, << >>, << >>, << >>, 0) :
                b \in mine }

\* the charts over a store whose balances are edited and deleted
ChartNext ==
    \/ \E req \in ChartRequests : OtherRequest(req)
    \/ \E r \in net : ServePatchBalance(r)
    \/ \E r \in net, lost \in BOOLEAN : ServeDeleteBalance(r, lost)

ChartSpec == Init /\ [][ChartNext]_vars

\* dates that leave months without a balance, lie in three years, or are
\* written month first
SeriesDates == { << "2","0","2","3","-","1","0","-","1","5" >>,
                 << "2","0","2","4","-","0","3","-","0","1" >>,
                 << "2","/","2","9","/","2","4" >>,
                 << "2","0","2","5","-","0","1","-","3","1" >> }

SeriesRequests ==
    LET n == hist.ops + 1
        mine == { b \in balances : b.user = Me }
    IN { Request("postBalance", Me, 0, n, 0, name, << >>, d, 4) :
           name \in { N_S, N_M }, d \in SeriesDates }
       \cup { Request("deleteBalance", Me, 0, n, b.id, << >>, << >>, << >>, 0) :
                b \in mine }

\* the charts over a store to which balances of other dates are added
SeriesNext ==
    \/ \E req \in SeriesRequests : OtherRequest(req)
    \/ \E r \in net : ServePostBalanceAccount(r)
    \/ \E r \in net : ServePostBalanceSelect(r)
    \/ \E r \in net : ServePostBalanceUpsert(r, FALSE, FALSE)
    \/ \E r \in net : ServeDeleteBalance(r, FALSE)

SeriesSpec == Init /\ [][SeriesNext]_vars

\* the text of the file that downloadCsv writes from its rows
exportLines(rows) ==
    LET typeName(t) == IF t = "liability"
                       THEN << "l","i","a","b","i","l","i","t","y" >> ELSE S_asset
    IN [ i \in DOMAIN rows |->
           IF i = 1 THEN Row(rows[1]) ELSE Row([rows[i] EXCEPT ![4] = typeName(@)]) ]

\* downloaded files: of the empty store, of the used store, and of the used
\* store after a balance of 31 December was added under the name "s"
ExportD0 == << "1","2","/","3","1","/","2","3" >>
ExportD1 == << "1","/","1","/","2","4" >>
ExportS5 == Row(<< ExportD0, N_S, S_cash, S_asset, << "5" >> >>)
Exports4 == Row(<< ExportD0, << "s" >>, S_other, S_asset, << "4" >> >>)
ExportS6 == Row(<< ExportD1, N_S, S_cash, S_asset, << "6" >> >>)
ExportM7 == Row(<< ExportD1, N_M, S_mortgage,
                   << "l","i","a","b","i","l","i","t","y" >>, << "7" >> >>)

RoundTripFiles ==
    { Header5,
      Text(<< Header5, ExportS5, ExportS6, ExportM7 >>),
      Text(<< Header5, ExportS5, Exports4, ExportS6, ExportM7 >>) }

\* what the user did before the download: a balance under the name "s"
RoundTripRequests ==
    { Request("postBalance", Me, 0, hist.ops + 1, 0, << "s" >>, << >>, d, 4) :
        d \in { D0, D2 } }

\* the user uploads a file that a download has written
RoundTripNext ==
    \/ \E req \in RoundTripRequests : run = 0 /\ OtherRequest(req)
    \/ \E f \in RoundTripFiles : run = 0 /\ net = {} /\ ChooseFile(f)
    \/ ImportSteps

RoundTripSpec == Init /\ [][RoundTripNext]_vars

\* uploads interleaved with the requests of other clients
Next ==
    \/ \E f \in Files : OpsLeft /\ ChooseFile(f)
    \/ ImportSteps
    \/ \E req \in OtherRequests : OtherRequest(req)
    \/ \E r \in net : ServePatchBalance(r)
    \/ \E r \in net : ServeDeleteAccountBalances(r)
    \/ \E r \in net : ServeDeleteAccountRow(r)

Spec == Init /\ [][Next]_vars

(***************************************************************************)
(* Claims                                                                  *)
(***************************************************************************)
Imported == pc = "done" /\ status.msg = "Imported"

\* the upload went through with every call succeeding
ImportedClean == Imported /\ hist.clean

OnePerPair ==
    \A b1 \in balances, b2 \in balances :
        b1.account_id = b2.account_id /\ b1.date = b2.date => b1 = b2

\* a step in which the upsert statement of request r runs on a pair that has a row
UpsertOverwrites ==
    \A r \in net :
        ( /\ r.kind = "postBalance" /\ r.step = 3 /\ r \notin net'
          /\ \E b \in balances : b.account_id = r.acct /\ b.date = r.date )
        => /\ Cardinality(balances') = Cardinality(balances)
           /\ hist'.faults = hist.faults =>
                \E b \in balances' : /\ b.account_id = r.acct /\ b.date = r.date
                                     /\ b.balance = r.balance

\* C1: in every reachable state there is at most one balance row per
\* (account, date), and an upsert for a pair that has a row overwrites the
\* balance of that row and adds no row.
C1_OnePerAccountDate == []OnePerPair /\ [][UpsertOverwrites]_vars

\* three upserts of one file went through and left two rows
C1_Witness ==
    /\ ImportedClean /\ file = FileLedger /\ status.rows = 3
    /\ Cardinality({ b \in balances : b.user = Me }) = 2
    /\ hist.ops > 0

UpsertIssued == \E i \in DOMAIN hist.attempts : hist.attempts[i] > 0

filePairs == { << cleanedRecords[i].account, cleanedRecords[i].date >> :
                 i \in DOMAIN cleanedRecords }

\* C2: no upsert of the upload is issued while a delete of the upload is
\* unsettled, and after an upload whose calls all succeeded the balances of
\* the user are rows written by it: pairs of the file, no row from before.
C2_DeletesBeforeUpserts ==
    /\ UpsertIssued =>
         /\ \A d \in net : ~(d.kind = "deleteBalance" /\ d.run = run)
         /\ pc \in { "inserting", "loading", "done" }
    /\ ImportedClean =>
         /\ { << r.account, r.date >> : r \in balanceRows(Me) } \subseteq filePairs
         /\ \A b \in balances : b.user = Me => b.id \notin hist.prior

C2_Witness ==
    /\ ImportedClean /\ Cardinality(hist.prior) = 3 /\ balanceRows(Me) # {}

failedShown == IF status.failedPart = << >> THEN 0 ELSE status.failedPart[1]

\* C3 as claimed: when an upsert of the run failed (rejected, or answered with
\* an error by the store), the final status shows a failed count above zero
\* and the imported count leaves that upsert out.
C3_FailuresReported ==
    ( /\ Imported
      /\ \E i \in DOMAIN hist.outcome : hist.outcome[i] \in { "error", "rejected" } )
    => /\ failedShown > 0
       /\ status.rows <= Cardinality({ i \in DOMAIN hist.outcome : hist.outcome[i] = "ok" })

\* C4: every cleaned record gets exactly one upsert attempt, whatever fails:
\* never two, and once the insert loop is over each has had its one attempt
\* and `failed` is the number of rejected upserts.
C4_OneAttemptEach ==
    /\ \A i \in DOMAIN hist.attempts : hist.attempts[i] <= 1
    /\ (pc \in { "loading", "done" } /\ cleanedRecords # << >>) =>
         /\ DOMAIN hist.attempts = DOMAIN cleanedRecords
         /\ \A i \in DOMAIN hist.attempts : hist.attempts[i] = 1
         /\ failed = Cardinality({ i \in DOMAIN hist.outcome :
                                     hist.outcome[i] = "rejected" })

\* an upsert of the first group was rejected and the record of the second
\* group was upserted all the same
C4_Witness ==
    /\ Imported /\ Len(cleanedRecords) = 3
    /\ hist.outcome[1] = "rejected" /\ hist.outcome[2] = "ok" /\ hist.outcome[3] = "ok"
    /\ failed = 1

\* C5 as claimed: two uploads of the same file, every call succeeding, leave
\* the entries that one upload leaves.
C5_ImportIdempotent ==
    \A i \in DOMAIN hist.log, j \in DOMAIN hist.log :
        ( /\ i < j /\ hist.log[i].file = hist.log[j].file
          /\ hist.log[i].status.msg = "Imported" /\ hist.log[i].clean
          /\ hist.log[j].status.msg = "Imported" /\ hist.log[j].clean )
        => hist.log[i].entries = hist.log[j].entries

\* C6: every account that existed when the file was chosen still exists, with
\* its id, owner and name.
C6_AccountsKept ==
    \A a \in hist.accts0 :
        \E b \in accounts : b.id = a.id /\ b.user = a.user /\ b.name = a.name

\* an upload changed the category of an account and left one it never names
C6_Witness ==
    /\ Imported /\ file = FileCase
    /\ \E a \in hist.accts0, b \in accounts : a.id = b.id /\ a.category # b.category
    /\ \E a \in hist.accts0 : a.user = Me /\ a.name = N_M

\* C7 as claimed: an upload of a file without valid rows after a successful
\* upload deletes every balance of the user and ends with "Imported 0 rows."
C7_EmptyFileClears ==
    \A i \in DOMAIN hist.log :
        ( /\ i > 1 /\ hist.log[i].file = FileEmpty
          /\ hist.log[i - 1].status.msg = "Imported" /\ hist.log[i - 1].clean
          /\ hist.faults = 0 )
        => /\ hist.log[i].entries = {}
           /\ hist.log[i].status = finalStatus(0, 0)

\* the lines of a text that the parser takes as data rows and drops
rejectedRows(text) ==
    LET lines == csvLines(text)
        header == IF lines = << >> THEN << >>
                  ELSE LET h == split(lines[1], ",")
                       IN [ i \in DOMAIN h |-> toLowerCase(trim(h[i])) ]
        startIdx == IF hasHeader5(header) \/ hasHeader4(header) \/ hasHeader3(header)
                    THEN 2 ELSE 1
    IN Cardinality({ i \in startIdx..Len(lines) : parseRow(lines[i], header) = << >> })

\* C8 as claimed: every row the parser rejects adds one to the failed count
\* of the final status, and creates no account and no balance.
C8_RejectedRowsCounted ==
    Imported =>
        /\ failedShown >= rejectedRows(file)
        /\ \A a \in accounts : a.name # << >>

parsed == run > 0 /\ pc # "reading"

\* C9 as claimed: a first line that is no header row is parsed as a data row;
\* the file "1/2/24,Savings,500" yields one record: 2024-01-02, Savings,
\* category other, balance 500.
C9_FirstLineIsData ==
    parsed =>
        /\ LET lines == csvLines(file)
               header == IF lines = << >> THEN << >>
                         ELSE LET h == split(lines[1], ",")
                              IN [ i \in DOMAIN h |-> toLowerCase(trim(h[i])) ]
           IN (lines # << >> /\ ~hasHeader5(header) /\ ~hasHeader4(header)
                 /\ ~hasHeader3(header))
              => records = parseRows(lines, 1, header)
        /\ file = LegacyRow =>
              /\ Len(records) = 1
              /\ records[1].date = D2
              /\ records[1].account = << "S","a","v","i","n","g","s" >>
              /\ records[1].category = S_other
              /\ records[1].balance = 500

\* C10 as claimed: in every chart row the category fields add up to netWorth.
\* Stated for the charts of a store that one upload has filled from empty, so
\* that every account and entry in the chart is one the program wrote.
C10_RollupSumsToNetWorth ==
    (ImportedClean /\ hist.accts0 = {}) =>
        \A row \in chartData(Me) :
            SumOver(DOMAIN row.fields, row.fields) = row.netWorth

\* the balances of user u with the account each one references
held(u) == { p \in balances \X accounts : p[1].user = u /\ p[2].id = p[1].account_id }

SumBalances(rows) ==
    SumOver({ p[1].id : p \in rows },
            [ i \in { p[1].id : p \in rows } |->
                (CHOOSE p \in rows : p[1].id = i)[1].balance ])

C12_BalancesHaveAccounts ==
    \A b \in balances :
        \E a \in accounts : a.id = b.account_id /\ a.user = b.user

\* the date column of the one row of a DateFile, as written in the file
dateOf(text) == split(split(text, "\n")[2], ",")[1]

signedPart(s) == includes(s, "/") /\ includes(s, "-")

\* C13 as claimed: for every string s, toIsoDate(toIsoDate(s)) = toIsoDate(s),
\* and for an unparsable s the output is the trimmed input.
C13_ToIsoDateIdempotent ==
    (parsed /\ file # << >>) =>
        LET s == dateOf(file) IN
        /\ toIsoDate(toIsoDate(s)) = toIsoDate(s)
        /\ ~parseDateParts(s).ok => toIsoDate(s) = trim(s)

\* C13 amended: the same for every string s that does not hold a "/" together
\* with a "-" (no part of a slash-separated date carries a minus sign); the
\* date of a parsed record is then a fixed point of toIsoDate.
C13_ToIsoDateIdempotentUnsigned ==
    (parsed /\ file # << >> /\ ~signedPart(dateOf(file))) =>
        LET s == dateOf(file) IN
        /\ toIsoDate(toIsoDate(s)) = toIsoDate(s)
        /\ ~parseDateParts(s).ok => toIsoDate(s) = trim(s)
        /\ \A i \in DOMAIN records : toIsoDate(records[i].date) = records[i].date

\* the row dated 2/12/24 was parsed to a record dated 2024-02-12
C13_Witness ==
    /\ parsed
    /\ file = DateFile(<< "2","/","1","2","/","2","4" >>)
    /\ Len(records) = 1
    /\ records[1].date = << "2","0","2","4","-","0","2","-","1","2" >>

yAxis == computeY(chartData(Me))

\* C14: for a chart with at least one row, computeY returns a domain
\* [min, max] with min <= max and ticks that go up in steps of 500,000 from
\* min to max, each within [min, max].
C14_TicksSpanDomain ==
    chartData(Me) # {} =>
        LET min == yAxis.domain[1]
            max == yAxis.domain[2]
            ticks == yAxis.ticks
        IN /\ min <= max
           /\ ticks # << >>
           /\ ticks[1] = min /\ ticks[Len(ticks)] = max
           /\ \A i \in 1..(Len(ticks) - 1) : ticks[i + 1] = ticks[i] + 500000
           /\ \A i \in DOMAIN ticks : min <= ticks[i] /\ ticks[i] <= max

\* a balance was set below zero and the axis runs from -1,500,000 to 500,000
C14_Witness ==
    /\ hist.ops > 0
    /\ chartData(Me) # {}
    /\ yAxis.domain = << 0 - 1500000, 500000 >>
    /\ Len(yAxis.ticks) = 5

\* C15 as claimed: for a chart without rows, computeY returns a numeric domain
\* and two ticks, the first equal to the lower and the second to the upper
\* bound of the domain.
C15_EmptyChartPlaceholder ==
    chartData(Me) = {} =>
        /\ Len(yAxis.ticks) = 2
        /\ yAxis.domain[1] \in Int /\ yAxis.domain[2] \in Int
        /\ yAxis.ticks[1] = yAxis.domain[1] /\ yAxis.ticks[2] = yAxis.domain[2]

\* a date written as M/D/YY: month and day without padding, two digits of year
isMDYY(x) ==
    LET parts == split(x, "/") IN
    /\ Len(parts) = 3
    /\ \A i \in 1..3 : AllDigits(parts[i])
    /\ Head(parts[1]) # "0" /\ Head(parts[2]) # "0"
    /\ Len(parts[3]) = 2

\* C16 as claimed: the download holds the 5-column header and then exactly
\* one row per stored (date, account) pair of the user, in non-decreasing
\* date order, with the dates written as M/D/YY.
C16_ExportRows ==
    LET data == Tail(downloadCsv)
        stored == { << r.date, r.account >> : r \in balanceRows(Me) }
    IN /\ downloadCsv[1] = << S_date, S_account, S_category, S_type, S_balance >>
       /\ Len(data) = Cardinality(stored)
       /\ \A pair \in stored :
            Cardinality({ i \in DOMAIN data : /\ toIsoDate(data[i][1]) = pair[1]
                                              /\ data[i][2] = pair[2] }) = 1
       /\ \A i \in DOMAIN data, j \in DOMAIN data :
            i < j => dateMs(data[i][1]) <= dateMs(data[j][1])
       /\ \A i \in DOMAIN data : Len(data[i]) = 5 /\ isMDYY(data[i][1])

\* the calls of the running upload that have not settled
inFlight == { r \in net : r.run = run /\ run > 0 }

BatchInFlight ==
    /\ pc \in BatchPhases =>
         /\ Cardinality(inFlight) <= BatchSize(pc)
         /\ \A r \in inFlight : PhaseOf(r.kind) = pc /\ r.idx \in Group(pc)
    /\ pc \notin BatchPhases \cup { "done" } => inFlight = {}

\* a step that issues a call of the upload finds no call of it in flight
IssuesWhenSettled ==
    (\E r \in net' : r.run = run' /\ run' > 0 /\ r.step = 1 /\ r \notin net)
    => { q \in net : q.run = run' } = {}

\* C17: the batches of an upload run one after the other, and the phases in
\* the order creates, updates, deletes, upserts: a call is only issued when
\* every call issued before it has settled, so the calls in flight are calls
\* of one batch of the current phase and at most as many as its batch size.
C17_BatchesInSequence == []BatchInFlight /\ [][IssuesWhenSettled]_vars

\* the second batch of deletes is in flight after the first, full one settled
C17_Witness ==
    /\ pc = "deleting" /\ done = DeleteBatch
    /\ Cardinality(inFlight) = 1
    /\ \A r \in inFlight : r.kind = "deleteBalance" /\ r.idx = DeleteBatch + 1

createFailedNames ==
    { trim(f.name) : f \in { x \in hist.acctFailed : x.kind = "postAccount" } }

LedgerFiles == { FileLedger, FileUndated }

\* C20 as claimed: after an upload whose rows carry no category, no update of
\* an account was queued and every account the user had when the file was
\* chosen has the category it had then.
C20_ExistingCategoryKept ==
    (ImportedClean /\ file \in LedgerFiles) =>
        /\ updateTasks = << >>
        /\ \A a \in hist.accts0 :
             a.user = Me => \E b \in accounts : b.id = a.id /\ b.category = a.category

\* C21 as claimed: after a clean upload of a file whose rows carry no category,
\* an account the user did not have before is there with the category "other
\* liability" when its row has the type liability, and "other" otherwise.
C21_DefaultCategoryOfNewAccount ==
    (ImportedClean /\ file = FileDebt) =>
        \A n \in { N_S, N_M } :
            (~\E a \in hist.accts0 : a.user = Me /\ toLowerCase(trim(a.name)) = toLowerCase(n))
            => \E b \in accounts :
                 /\ b.user = Me /\ b.name = n
                 /\ b.category = IF n = N_M THEN S_otherLiability ELSE S_other

\* the names of two accounts differ in letter case only
sameButCase(a, b) ==
    a.user = b.user /\ a.name # b.name /\ toLowerCase(a.name) = toLowerCase(b.name)

\* C22 as claimed: when the user's accounts had names that differ in more than
\* letter case, they still do after a clean upload, every account of the user
\* whose name matches one of before ignoring case is that account, and each
\* balance of the file is held by the account of before whose name matches.
C22_NamesMatchedIgnoringCase ==
    ( /\ ImportedClean
      /\ ~\E a \in hist.accts0, b \in hist.accts0 : sameButCase(a, b) )
    => /\ ~\E a \in accountsOf(Me), b \in accountsOf(Me) : sameButCase(a, b)
       /\ \A b \in accountsOf(Me) :
            (\E a \in hist.accts0 :
                a.user = Me /\ toLowerCase(a.name) = toLowerCase(b.name))
            => \E a \in hist.accts0 : a.id = b.id
       /\ \A c \in { cleanedRecords[i] : i \in DOMAIN cleanedRecords } :
            \A a \in hist.accts0 :
                (a.user = Me /\ toLowerCase(a.name) = toLowerCase(c.account))
                => \E x \in balances : x.account_id = a.id /\ x.date = c.date

\* a canonical date: YYYY-MM-DD in digits
isIsoDate(s) ==
    /\ Len(s) = 10
    /\ \A i \in 1..10 : IF i \in { 5, 8 } THEN s[i] = "-" ELSE AllDigits(<< s[i] >>)

\* the records of the upload whose date toIsoDate cannot parse
undated == { i \in DOMAIN records : ~isIsoDate(toIsoDate(records[i].date)) }

\* C23 as claimed: when an upload ends with counts, no record with an
\* unparsable date is among the cleaned records, each of them is counted as
\* failed, and no balance has a date that is not canonical.
C23_UnparsableDateIsInvalid ==
    (pc = "done" /\ status.msg = "Imported") =>
        /\ \A i \in DOMAIN cleanedRecords : isIsoDate(cleanedRecords[i].date)
        /\ failedShown >= Cardinality(undated)
        /\ \A b \in balances : isIsoDate(b.date)

\* the row a call of the upload writes: the account of an id or a name, the
\* balance of an id, or the balance of an account name and a date
target(r) == << r.kind, r.id, r.name, r.date >>

\* C24 as claimed: the calls of the upload that are in flight together write
\* different rows.
C24_BatchRowsDisjoint ==
    \A r1 \in inFlight, r2 \in inFlight : r1 # r2 => target(r1) # target(r2)

\* the upload has ended with one of its two final statuses, nothing of it is
\* awaited and no batch is left to issue
Terminated ==
    /\ pc = "done" /\ tstat = << >>
    /\ \/ status.msg = "Error importing CSV"
       \/ /\ status.msg = "Imported"
          /\ done = Len(cleanedRecords)
          /\ imported + failed = Len(cleanedRecords)

\* C25: a confirmed upload ends: from the state after the confirmation the
\* upload reaches a final status with no call left to issue, and while a batch
\* is awaited the upload waits for calls of that batch only.
C25_ConfirmedUploadEnds ==
    /\ (pc = "getAccounts") ~> Terminated
    /\ [](pc \in BatchPhases /\ tstat # << >> =>
            \A i \in DOMAIN tstat : i \in Group(pc))

\* an upload of two batches of upserts ended with counts after a call failed
C25_Witness ==
    /\ Terminated /\ status.msg = "Imported"
    /\ Len(cleanedRecords) > InsertBatch
    /\ hist.faults = 1

\* months counted from year 0
monthIndex(ms) == getUTCFullYear(ms) * 12 + getUTCMonth(ms)

\* the timestamps of the points of the chart
pointMs == { dateMs(toIsoDate(d.date)) : d \in timeseries(Me) }

\* C26: when the chart has points, its month ticks are first days of months,
\* the first is in the month of the earliest point, the last in the month of
\* the latest point, and each tick is in the month after the tick before it.
C26_MonthTicksContinuous ==
    pointMs # {} =>
        LET t == monthTicks(Me)
            lo == CHOOSE x \in pointMs : \A y \in pointMs : x <= y
            hi == CHOOSE x \in pointMs : \A y \in pointMs : y <= x
        IN /\ t # << >>
           /\ \A i \in DOMAIN t : getUTCDate(t[i]) = 1
           /\ monthIndex(t[1]) = monthIndex(lo)
           /\ monthIndex(t[Len(t)]) = monthIndex(hi)
           /\ \A i \in 1..(Len(t) - 1) :
                t[i] < t[i + 1] /\ monthIndex(t[i + 1]) = monthIndex(t[i]) + 1

\* the ticks go from October 2023 to March 2024 and one is in a month
\* without a point
C26_Witness ==
    LET t == monthTicks(Me) IN
    /\ Len(t) = 6
    /\ getUTCFullYear(t[1]) = 2023 /\ getUTCMonth(t[1]) = 9
    /\ getUTCFullYear(t[6]) = 2024 /\ getUTCMonth(t[6]) = 2
    /\ \E i \in DOMAIN t : \A x \in pointMs : monthIndex(x) # monthIndex(t[i])

\* the rows of user u
rowsOwnedBy(u) ==
    << { a \in accounts : a.user = u }, { b \in balances : b.user = u } >>

\* a step that handles only requests of other users leaves the rows of u
OthersLeaveRows ==
    \A u \in Users :
        (\A r \in net \ net' : r.user # u) => rowsOwnedBy(u)' = rowsOwnedBy(u)

\* what a user is served holds rows of that user only: a balance is joined
\* with an account of its owner, and the accounts and balances the upload got
\* from getAccounts() and getBalances() are not rows of another user
ServedOwnRows ==
    /\ \A b \in balances, a \in accounts : a.id = b.account_id => a.user = b.user
    /\ \A k \in DOMAIN acctMap :
         ~\E a \in accounts : a.id = acctMap[k].id /\ a.user # Me
    /\ \A i \in DOMAIN deleteTasks :
         ~\E b \in balances : b.id = deleteTasks[i] /\ b.user # Me

\* C27: the requests of a user change no account and no balance of another
\* user, whatever ids and names they carry, and the responses to a user hold
\* no row of another user.
C27_OwnerIsolation == [][OthersLeaveRows]_vars /\ []ServedOwnRows

\* the first statement of a delete of an account was run for a user who does
\* not own the account, and the balances of the account are still there
C27_Witness ==
    \E r \in net :
        /\ r.kind = "deleteAccount" /\ r.step = 2
        /\ \E a \in accounts :
             /\ a.id = r.id /\ a.user # r.user
             /\ \E b \in balances : b.account_id = a.id

\* C28: while the upserts run, imported + failed is at most the number of
\* records the parser returned, and when the upload ends with counts the rows
\* and the failures it shows add up to that number.
C28_CountsAddUp ==
    /\ pc \in { "inserting", "loading" } => imported + failed <= Len(records)
    /\ Imported =>
         /\ imported + failed = Len(records)
         /\ status.rows + failedShown = Len(records)

\* an upload of three records ended with two imported and one failed
C28_Witness ==
    Imported /\ Len(records) = 3 /\ status.rows = 2 /\ failedShown = 1

\* the accounts that the downloaded file names
exported == { a \in hist.accts0 : a.user = Me /\ \E e \in hist.entries0 : e[1] = a.name }

\* the file that the download wrote from the store as it was when the file
\* was chosen
exportedBefore ==
    Text(exportLines(downloadRows(
        { a \in hist.accts0 : a.user = Me },
        { [id |-> 0, account |-> e[1], date |-> e[2], balance |-> e[3]] :
            e \in hist.entries0 })))

\* the balances before the download have canonical dates of the years 2000
\* to 2099 and accounts whose names hold no comma
Exportable ==
    \A e \in hist.entries0 :
        /\ isIsoDate(e[2]) /\ e[2][1] = "2" /\ e[2][2] = "0"
        /\ ~includes(e[1], ",")

\* C29 as claimed: after the upload of the file that the download wrote, with
\* every call succeeding, the balances are those of before the download and
\* every account the file names has the category it had.
C29_ExportImportRoundTrip ==
    (ImportedClean /\ Exportable /\ file = exportedBefore) =>
        /\ entriesOf(Me) = hist.entries0
        /\ \A a \in exported :
             \E b \in accounts : b.id = a.id /\ b.category = a.category

\* the dates picked for the pie: none, one before and one after every point,
\* one of a point, one as far from 1 January as from 1 March 2024, and no date
PieDates == { << >>,
              << "2","0","2","3","-","0","1","-","0","1" >>,
              << "2","0","2","6","-","0","1","-","0","1" >>,
              D1,
              << "1","/","3","1","/","2","4" >>,
              << "x" >> }

\* the timestamp the pie aims at for the date picked
pieTargetMs(pieDate) ==
    LET n == normalized(Me) IN
    dateMs(IF pieDate # << >> THEN toIsoDate(pieDate) ELSE n[Len(n)].iso)

distance(a, b) == IF a < b THEN b - a ELSE a - b

\* C30: for every date picked, the point the pie shows is as close to the
\* date as any point of the series, and no point as close is later.
C30_PieShowsClosestPoint ==
    timeseries(Me) # {} =>
        \A pieDate \in PieDates :
            LET n == normalized(Me)
                t == pieTargetMs(pieDate)
                c == pieClosest(Me, pieDate)
            IN /\ \E i \in DOMAIN n : n[i] = c
               /\ \A i \in DOMAIN n :
                    /\ distance(c.ms, t) <= distance(n[i].ms, t)
                    /\ distance(c.ms, t) = distance(n[i].ms, t) => n[i].ms <= c.ms

\* of four points the pie shows the third, which is as far from 31 January
\* 2024 as the second: the scan has stopped before the fourth
C30_Witness ==
    LET n == normalized(Me)
        pieDate == << "1","/","3","1","/","2","4" >>
    IN /\ Len(n) = 4
       /\ pieClosest(Me, pieDate) = n[3]
       /\ distance(n[2].ms, pieTargetMs(pieDate)) = distance(n[3].ms, pieTargetMs(pieDate))

====
